---- MODULE Spec2Model ----
(***************************************************************************)
(* Model of plugins/modules/lpp_facts.py: the lslpp query construction and *)
(* the parsing of its colon-separated output into fileset records.         *)
(*                                                                         *)
(* Python strings are sequences of one-character strings, so that split,   *)
(* splitlines, strip, lower and int act on characters as the code does.    *)
(* A dict is a function whose DOMAIN is the set of keys present.           *)
(***************************************************************************)
EXTENDS Integers, Sequences, FiniteSets, TLC

\* Largest number of chunks of lslpp output that make up one stdout.
MaxChunks == 2

\* ---- string literals of the module ----
\* the path module.get_bin_path('lslpp', required=True) returns
LslppPath ==
    << "/", "u", "s", "r", "/", "b", "i", "n", "/", "l", "s", "l",
       "p", "p" >>
FlagList ==
    << "-", "l", "a", "c", "q" >>
FlagBase ==
    << "-", "I" >>
FlagRoot ==
    << "-", "R" >>
FlagBundle ==
    << "-", "b" >>
SelAll ==
    << "a", "l", "l" >>
EFIXLOCKED ==
    << "E", "F", "I", "X", "L", "O", "C", "K", "E", "D" >>
L_install ==
    << "i", "n", "s", "t", "a", "l", "l" >>
L_maintenance ==
    << "m", "a", "i", "n", "t", "e", "n", "a", "n", "c", "e" >>
L_enhancement ==
    << "e", "n", "h", "a", "n", "c", "e", "m", "e", "n", "t" >>
L_fix ==
    << "f", "i", "x" >>

\* ---- request values tried ----
PatA ==
    << "b", "o", "s", ".", "*" >>
PatB ==
    << "a", "l", "l" >>
BundleA ==
    << "A", "p", "p" >>
PathA ==
    << "/", "r" >>

\* ---- chunks of lslpp standard output tried (each with its line end) ----
\* nine fields: three colons follow the level
LineExample2 ==
    << "/", "e", "t", "c", "/", "o", "b", "j", "r", "e", "p", "o",
       "s", ":", "b", "o", "s", ".", "r", "t", "e", ".", "l", "i",
       "b", ":", "7", ".", "2", ".", "3", ".", "1", ":", ":", ":",
       "C", "O", "M", "M", "I", "T", "T", "E", "D", ":", "M", ":",
       "L", "i", "b", "r", "a", "r", "i", "e", "s", ":", "E", "F",
       "I", "X", "L", "O", "C", "K", "E", "D", "\n" >>
\* exactly eight fields, CR LF line end
LineLocked ==
    << "s", ":", "n", ":", "1", "0", ".", "0", ".", "0", ".", "1",
       ":", ":", "C", "O", "M", "M", "I", "T", "T", "E", "D", ":",
       "I", ":", "d", ":", "E", "F", "I", "X", "L", "O", "C", "K",
       "E", "D", "\r", "\n" >>
\* every field padded with blanks
LinePadded ==
    << " ", "s", " ", ":", "n", "\t", ":", " ", "1", ".", "0", ".",
       "0", ".", "2", " ", ":", " ", ":", " ", "A", "p", "p", "l",
       "i", "e", "d", " ", ":", " ", "F", " ", ":", " ", "d", " ",
       ":", " ", "E", "F", "I", "X", "L", "O", "C", "K", "E", "D",
       " ", "\n" >>
\* a line of seven fields, an empty line, and a line of eight fields with a
\* three-segment level and the lock flag in lower case
LinesShortThreeSeg ==
    << "s", ":", "n", ":", "1", ".", "0", ".", "0", ".", "0", ":",
       ":", ":", "I", ":", "d", "\n", "\n", "s", ":", "n", ":", "7",
       ".", "2", ".", "3", ":", "U", "1", ":", "B", "R", "O", "K",
       "E", "N", ":", "E", ":", "d", ":", "e", "f", "i", "x", "l",
       "o", "c", "k", "e", "d", "\n" >>
\* four segments with signs and a blank
LineSigned ==
    << "s", ":", "n", ":", "7", ".", "-", "2", ".", " ", "3", ".",
       "+", "0", ":", ":", "A", "P", "P", "L", "I", "E", "D", ":",
       "M", ":", "d", ":", "E", "F", "I", "X", "L", "O", "C", "K",
       "E", "D", "X", "\n" >>
\* four segments, one not a number, one empty
LineBadInt ==
    << "s", ":", "n", ":", "7", ".", "x", ".", ".", "0", ":", ":",
       "A", "P", "P", "L", "I", "E", "D", ":", "I", ":", "d", ":",
       "E", "F", "I", "X", "L", "O", "C", "K", "E", "D", ":", "z",
       "\n" >>
\* five-segment level, blank type code, nine fields
LineFiveSeg ==
    << "s", ":", "n", ":", "1", ".", "2", ".", "3", ".", "4", ".",
       "5", ":", "U", "1", ":", "O", "B", "S", "O", "L", "E", "T",
       "E", ":", " ", ":", "d", ":", "E", "F", "I", "X", "L", "O",
       "C", "K", "E", "D", ":", "e", "x", "t", "r", "a", "\n" >>

\* ---- character classes ----
UpperCase ==
    << "A", "B", "C", "D", "E", "F", "G", "H", "I", "J", "K", "L",
       "M", "N", "O", "P", "Q", "R", "S", "T", "U", "V", "W", "X",
       "Y", "Z" >>
LowerCase ==
    << "a", "b", "c", "d", "e", "f", "g", "h", "i", "j", "k", "l",
       "m", "n", "o", "p", "q", "r", "s", "t", "u", "v", "w", "x",
       "y", "z" >>
DigitChars ==
    << "0", "1", "2", "3", "4", "5", "6", "7", "8", "9" >>

\* ---- Python string methods and built-ins used by main() ----
\* The characters strip() removes and the line ends splitlines() knows,
\* among the characters of the texts tried (Python knows more: FF, VT and,
\* for unicode text, further separators).
Whitespace == {" ", "\t", "\n", "\r"}
LineBreaks == {"\n", "\r"}

\* The first position of s that holds a character of cs, 0 if none.
Find(s, cs) ==
    IF \E i \in 1..Len(s) : s[i] \in cs
    THEN CHOOSE i \in 1..Len(s) :
            s[i] \in cs /\ \A j \in 1..(i - 1) : s[j] \notin cs
    ELSE 0

\* str.split(sep) with a one-character separator: the pieces between the
\* separators, in order; never an empty list.
RECURSIVE Split(_, _)
Split(s, sep) ==
    LET p == Find(s, {sep})
    IN  IF p = 0 THEN <<s>>
        ELSE <<SubSeq(s, 1, p - 1)>> \o Split(SubSeq(s, p + 1, Len(s)), sep)

\* str.splitlines(): the pieces between line ends (LF, CR or CR LF), line
\* ends removed; text after the last line end is a line only if not empty.
RECURSIVE SplitLines(_)
SplitLines(s) ==
    LET p    == Find(s, LineBreaks)
        crlf == s[p] = "\r" /\ p < Len(s) /\ s[p + 1] = "\n"
        rest == SubSeq(s, IF crlf THEN p + 2 ELSE p + 1, Len(s))
    IN  IF s = <<>> THEN <<>>
        ELSE IF p = 0 THEN <<s>>
        ELSE <<SubSeq(s, 1, p - 1)>> \o SplitLines(rest)

RECURSIVE LStrip(_)
LStrip(s) ==
    IF s # <<>> /\ Head(s) \in Whitespace THEN LStrip(Tail(s)) ELSE s

RECURSIVE RStrip(_)
RStrip(s) ==
    IF s # <<>> /\ s[Len(s)] \in Whitespace
    THEN RStrip(SubSeq(s, 1, Len(s) - 1)) ELSE s

\* str.strip()
Strip(s) == RStrip(LStrip(s))

LowerChar(c) ==
    IF \E k \in 1..Len(UpperCase) : UpperCase[k] = c
    THEN LowerCase[CHOOSE k \in 1..Len(UpperCase) : UpperCase[k] = c]
    ELSE c

\* str.lower()
Lower(s) == [k \in 1..Len(s) |-> LowerChar(s[k])]

DigitVal(c) == (CHOOSE k \in 1..Len(DigitChars) : DigitChars[k] = c) - 1

IsDigit(c) == \E k \in 1..Len(DigitChars) : DigitChars[k] = c

RECURSIVE DigitsValue(_)
DigitsValue(ds) ==
    IF ds = <<>> THEN 0
    ELSE 10 * DigitsValue(SubSeq(ds, 1, Len(ds) - 1)) + DigitVal(ds[Len(ds)])

\* int(s): blanks around the text are skipped, one sign is allowed, at
\* least one decimal digit must follow; anything else over the characters
\* tried raises ValueError (ok = FALSE).  Python integers do not overflow.
ParseInt(s) ==
    LET t      == Strip(s)
        signed == t # <<>> /\ t[1] \in {"+", "-"}
        digits == IF signed THEN Tail(t) ELSE t
        valid  == digits # <<>> /\ \A k \in 1..Len(digits) : IsDigit(digits[k])
    IN  [ok  |-> valid,
         val |-> IF ~valid THEN 0
                 ELSE IF signed /\ t[1] = "-" THEN 0 - DigitsValue(digits)
                 ELSE DigitsValue(digits)]

\* ---- dict operations ----
EmptyDict == [k \in {} |-> k]

\* d[k] = v for a key k that d does not hold yet, done only if cond.
SetIf(cond, k, v) == IF cond THEN k :> v ELSE EmptyDict

\* Mutant: the labels of E and F exchanged.
LPP_TYPE_swapped ==
    [c \in {<<"I">>, <<"M">>, <<"E">>, <<"F">>} |->
        IF c = <<"I">> THEN L_install
        ELSE IF c = <<"M">> THEN L_maintenance
        ELSE IF c = <<"E">> THEN L_fix
        ELSE L_enhancement]

LPP_TYPE ==
    [c \in {<<"I">>, <<"M">>, <<"E">>, <<"F">>} |->
        IF c = <<"I">> THEN L_install
        ELSE IF c = <<"M">> THEN L_maintenance
        ELSE IF c = <<"E">> THEN L_enhancement
        ELSE L_fix]

\* Mutant: an unknown code is passed through instead of mapped to ''.
LppTypeGet_echo(code) == IF code \in DOMAIN LPP_TYPE THEN LPP_TYPE[code] ELSE code

\* LPP_TYPE.get(code, '')
LppTypeGet(code) == IF code \in DOMAIN LPP_TYPE THEN LPP_TYPE[code] ELSE <<>>

\* ---- the inputs tried ----
\* A module parameter: given = FALSE is a parameter the task did not
\* supply (None in module.params).
NotGiven == [given |-> FALSE, val |-> <<>>]
Given(v) == [given |-> TRUE, val |-> v]

\* Python truth value of a str or list parameter.
Truthy(p) == p.given /\ p.val # <<>>

FilesetsValues == {NotGiven, Given(<<>>), Given(<<PatA, PatB>>)}
BundleValues == {NotGiven, Given(<<>>), Given(BundleA)}
PathValues == {NotGiven, Given(<<>>), Given(PathA)}

Requests ==
    [filesets : FilesetsValues, bundle : BundleValues,
     path : PathValues, base_levels_only : BOOLEAN]

ExitStatuses == {0, 1}

Chunks ==
    {LineExample2, LinesShortThreeSeg, LineLocked, LinePadded, LineSigned,
     LineBadInt, LineFiveSeg}

RECURSIVE Concat(_)
Concat(ss) == IF ss = <<>> THEN <<>> ELSE Head(ss) \o Concat(Tail(ss))

\* Every text lslpp is taken to print: up to MaxChunks chunks in a row.
Outputs ==
    UNION {{Concat(ss) : ss \in [1..n -> Chunks]} : n \in 0..MaxChunks}

\* ---- state ----
VARIABLES
    pc,        \* where main() stands
    params,    \* module.params
    cmd,       \* the argument list being built
    executed,  \* the argument lists run_command was called with
    ret,       \* exit status of lslpp
    stdout,    \* standard output of lslpp
    lines,     \* stdout.splitlines(), what the for loop runs over
    idx,       \* number of the line the for loop is at
    filesets,  \* the list of records built so far
    results    \* what exit_json was called with

vars == <<pc, params, cmd, executed, ret, stdout, lines, idx, filesets, results>>

NoResult == [emitted |-> FALSE]

Init ==
    /\ pc = "validate"
    /\ params \in Requests
    /\ cmd = <<>>
    /\ executed = <<>>
    /\ ret = 0
    /\ stdout = <<>>
    /\ lines = <<>>
    /\ idx = 1
    /\ filesets = <<>>
    /\ results = NoResult

\* Mutant: the constructor does not enforce mutually_exclusive.
Validate_noCheck ==
    /\ pc = "validate"
    /\ pc' = "get_bin_path"
    /\ UNCHANGED <<params, cmd, executed, ret, stdout, lines, idx, filesets, results>>

\* AnsibleModule(...): mutually_exclusive=[['filesets', 'bundle']] makes
\* the constructor call fail_json when the task supplies both.
Validate ==
    /\ pc = "validate"
    /\ pc' = IF params.filesets.given /\ params.bundle.given
             THEN "failed" ELSE "get_bin_path"
    /\ UNCHANGED <<params, cmd, executed, ret, stdout, lines, idx, filesets, results>>

\* module.get_bin_path('lslpp', required=True): fail_json when lslpp is
\* not on the host.
GetBinPath ==
    /\ pc = "get_bin_path"
    /\ \E found \in BOOLEAN :
          pc' = IF found THEN "build" ELSE "failed"
    /\ UNCHANGED <<params, cmd, executed, ret, stdout, lines, idx, filesets, results>>

\* Mutant: the alternate-root flag is put before the base-level flag.
BuildCmd_rootFirst ==
    /\ pc = "build"
    /\ LET c0 == <<LslppPath, FlagList>>
           c1 == IF Truthy(params.path)
                 THEN c0 \o <<FlagRoot, params.path.val>> ELSE c0
           c2 == IF params.base_levels_only THEN c1 \o <<FlagBase>> ELSE c1
           c3 == IF Truthy(params.bundle)
                 THEN c2 \o <<FlagBundle, params.bundle.val>>
                 ELSE IF Truthy(params.filesets)
                 THEN c2 \o params.filesets.val
                 ELSE c2 \o <<SelAll>>
       IN  cmd' = c3
    /\ pc' = "run"
    /\ UNCHANGED <<params, executed, ret, stdout, lines, idx, filesets, results>>

\* cmd = [lslpp_path, '-lacq'] and the three ifs that extend it.
BuildCmd ==
    /\ pc = "build"
    /\ LET c0 == <<LslppPath, FlagList>>
           c1 == IF params.base_levels_only THEN c0 \o <<FlagBase>> ELSE c0
           c2 == IF Truthy(params.path)
                 THEN c1 \o <<FlagRoot, params.path.val>> ELSE c1
           c3 == IF Truthy(params.bundle)
                 THEN c2 \o <<FlagBundle, params.bundle.val>>
                 ELSE IF Truthy(params.filesets)
                 THEN c2 \o params.filesets.val
                 ELSE c2 \o <<SelAll>>
       IN  cmd' = c3
    /\ pc' = "run"
    /\ UNCHANGED <<params, executed, ret, stdout, lines, idx, filesets, results>>

\* Mutant: a non-zero exit status of lslpp ends the module with fail_json.
RunCommand_failOnStatus ==
    /\ pc = "run"
    /\ \E r \in ExitStatuses, out \in Outputs :
          /\ ret' = r
          /\ stdout' = out
    /\ executed' = Append(executed, cmd)
    /\ lines' = SplitLines(stdout')
    /\ idx' = 1
    /\ filesets' = <<>>
    /\ pc' = IF ret' # 0 THEN "failed" ELSE "loop"
    /\ UNCHANGED <<params, cmd, results>>

\* ret, stdout, stderr = module.run_command(cmd); ret and stderr are not
\* looked at again.  filesets = [] and the for loop starts.
RunCommand ==
    /\ pc = "run"
    /\ \E r \in ExitStatuses, out \in Outputs :
          /\ ret' = r
          /\ stdout' = out
    /\ executed' = Append(executed, cmd)
    /\ lines' = SplitLines(stdout')
    /\ idx' = 1
    /\ filesets' = <<>>
    /\ pc' = "loop"
    /\ UNCHANGED <<params, cmd, results>>

\* Mutant: a line needs nine fields.
TooShort_nine(raw_fields) == Len(raw_fields) < 9

\* if len(raw_fields) < 8: continue
TooShort(raw_fields) == Len(raw_fields) < 8

\* Mutant: four or more segments are taken for a version.
Vrmf_atLeastFour(level) ==
    LET vrmf == Split(level, ".")
        ints == [k \in 1..Len(vrmf) |-> ParseInt(vrmf[k])]
    IN  [four |-> Len(vrmf) >= 4,
         ok   |-> Len(vrmf) >= 4 => \A k \in 1..4 : ints[k].ok,
         val  |-> IF Len(vrmf) >= 4
                  THEN [ver |-> ints[1].val, rel |-> ints[2].val,
                        mod |-> ints[3].val, fix |-> ints[4].val]
                  ELSE EmptyDict]

\* vrmf = fields[2].split('.'); if len(vrmf) == 4: the four int() calls.
\* ok = FALSE is a ValueError raised by one of them.
Vrmf(level) ==
    LET vrmf == Split(level, ".")
        ints == [k \in 1..Len(vrmf) |-> ParseInt(vrmf[k])]
    IN  [four |-> Len(vrmf) = 4,
         ok   |-> Len(vrmf) = 4 => \A k \in 1..4 : ints[k].ok,
         val  |-> IF Len(vrmf) = 4
                  THEN [ver |-> ints[1].val, rel |-> ints[2].val,
                        mod |-> ints[3].val, fix |-> ints[4].val]
                  ELSE EmptyDict]

\* Mutant: the lock flag is compared without regard to case.
IsLocked_anyCase(flag) == Lower(flag) = Lower(EFIXLOCKED)

\* if fields[7] == 'EFIXLOCKED'
IsLocked(flag) == flag = EFIXLOCKED

\* The record of one line with eight or more fields; ok = FALSE when
\* int() raised and no record was built.
BuildFileset(fields) ==
    LET v == Vrmf(fields[3])
    IN  [ok |-> v.ok,
         fileset |->
            ("source" :> fields[1])
            @@ ("name" :> fields[2])
            @@ ("level" :> fields[3])
            @@ SetIf(v.four /\ v.ok, "vrmf", v.val)
            @@ SetIf(fields[4] # <<>>, "ptf", fields[4])
            @@ ("state" :> Lower(fields[5]))
            @@ SetIf(fields[6] # <<>>, "type", LppTypeGet(fields[6]))
            @@ ("description" :> fields[7])
            @@ SetIf(IsLocked(fields[8]), "emgr_locked", TRUE)]

\* Mutant: a line whose level int() rejects is skipped.
ParseLine_skipBad ==
    /\ pc = "loop"
    /\ idx <= Len(lines)
    /\ LET line       == lines[idx]
           raw_fields == Split(line, ":")
           fields     == [k \in 1..Len(raw_fields) |-> Strip(raw_fields[k])]
       IN  IF TooShort(raw_fields) \/ ~BuildFileset(fields).ok
           THEN /\ idx' = idx + 1
                /\ UNCHANGED <<pc, filesets>>
           ELSE /\ filesets' = Append(filesets, BuildFileset(fields).fileset)
                /\ idx' = idx + 1
                /\ UNCHANGED pc
    /\ UNCHANGED <<params, cmd, executed, ret, stdout, lines, results>>

\* One pass of "for line in stdout.splitlines()".
ParseLine ==
    /\ pc = "loop"
    /\ idx <= Len(lines)
    /\ LET line       == lines[idx]
           raw_fields == Split(line, ":")
           fields     == [k \in 1..Len(raw_fields) |-> Strip(raw_fields[k])]
           built      == BuildFileset(fields)
       IN  IF TooShort(raw_fields)
           THEN /\ idx' = idx + 1
                /\ UNCHANGED <<pc, filesets>>
           ELSE IF built.ok
           THEN /\ filesets' = Append(filesets, built.fileset)
                /\ idx' = idx + 1
                /\ UNCHANGED pc
           ELSE /\ pc' = "fault"
                /\ UNCHANGED <<idx, filesets>>
    /\ UNCHANGED <<params, cmd, executed, ret, stdout, lines, results>>

\* results = dict(ansible_facts=dict(filesets=filesets)); exit_json
ExitJson ==
    /\ pc = "loop"
    /\ idx > Len(lines)
    /\ results' = [emitted |-> TRUE,
                   ansible_facts |-> [filesets |-> filesets]]
    /\ pc' = "done"
    /\ UNCHANGED <<params, cmd, executed, ret, stdout, lines, idx, filesets>>

Next ==
    \/ Validate
    \/ GetBinPath
    \/ BuildCmd
    \/ RunCommand
    \/ ParseLine
    \/ ExitJson

Spec == Init /\ [][Next]_vars

TypeOK ==
    /\ pc \in {"validate", "get_bin_path", "build", "run", "loop",
               "done", "failed", "fault"}
    /\ params \in Requests
    /\ ret \in ExitStatuses
    /\ Len(executed) <= 1
    /\ idx \in 1..(Len(lines) + 1)

\* ---- what the properties speak of ----
\* The k-th smallest of a set of positions.
Nth(S, k) == CHOOSE i \in S : Cardinality({j \in S : j < i}) = k - 1

PositionsOf(s, c) == {i \in 1..Len(s) : s[i] = c}

\* The k-th piece of s between occurrences of c (k at most their number
\* plus one), read off the positions of c.
PieceOf(s, c, k) ==
    LET at == PositionsOf(s, c)
        lo == IF k = 1 THEN 0 ELSE Nth(at, k - 1)
        hi == IF k > Cardinality(at) THEN Len(s) + 1 ELSE Nth(at, k)
    IN  SubSeq(s, lo + 1, hi - 1)

\* s without the blanks at its two ends.
Trimmed(s) ==
    LET keep == {i \in 1..Len(s) : s[i] \notin {" ", "\t"}}
    IN  IF keep = {} THEN <<>>
        ELSE SubSeq(s, CHOOSE i \in keep : \A j \in keep : i <= j,
                       CHOOSE i \in keep : \A j \in keep : j <= i)

\* The k-th field of a line, trimmed.
FieldOf(line, k) == Trimmed(PieceOf(line, ":", k))

\* A line that splits on ':' into eight or more fields.
EightOrMore(line) == Cardinality(PositionsOf(line, ":")) >= 7

\* The lines of eight or more fields, in the order of the output.
RecordLines(ls) == SelectSeq(ls, EightOrMore)

\* A level of exactly four dot-separated segments, one of which int()
\* rejects.
BadLevel(level) ==
    /\ Cardinality(PositionsOf(level, ".")) = 3
    /\ \E k \in 1..4 : ~ParseInt(PieceOf(level, ".", k)).ok

\* A line of eight or more fields with such a level.
BadLine(line) == EightOrMore(line) /\ BadLevel(FieldOf(line, 3))

HasBadLevelLine(ls) == \E k \in 1..Len(ls) : BadLine(ls[k])

\* The first eight trimmed fields of a line.
FirstEight(line) == [k \in 1..8 |-> FieldOf(line, k)]

Ran == executed # <<>>

Emitted == results.ansible_facts.filesets

\* Every emitted record r, with the line l it comes from, satisfies P.
EveryRecord(P(_, _)) ==
    (pc = "done") =>
        LET from == RecordLines(lines)
        IN  /\ Len(Emitted) = Len(from)
            /\ \A k \in 1..Len(Emitted) : P(Emitted[k], from[k])

SomeRecord(P(_, _)) ==
    /\ pc = "done"
    /\ LET from == RecordLines(lines)
       IN  /\ Len(Emitted) = Len(from)
           /\ \E k \in 1..Len(Emitted) : P(Emitted[k], from[k])

\* ---- properties ----

\* C1: the emitted filesets are the lines of eight or more ':'-separated
\* fields, one record each, in output order; a shorter line gives no
\* record, and a record is the record of its line's first eight fields.
C1_RecordsAreLongLines ==
    (pc = "done") =>
        LET from == RecordLines(lines)
        IN  /\ Len(Emitted) = Len(from)
            /\ \A k \in 1..Len(Emitted) :
                  Emitted[k] = BuildFileset(FirstEight(from[k])).fileset

\* C1 witness: a result of fewer records than lines, with a record from a
\* line of nine fields and none from a line of seven.
C1_Witness ==
    /\ pc = "done"
    /\ Len(Emitted) >= 1
    /\ Len(Emitted) < Len(lines)
    /\ \E k \in 1..Len(lines) : Cardinality(PositionsOf(lines[k], ":")) = 8
    /\ \E k \in 1..Len(lines) : Cardinality(PositionsOf(lines[k], ":")) = 6

\* The four segments of a four-segment level.
Segments(level) == [k \in 1..4 |-> PieceOf(level, ".", k)]

FourSegments(level) == Cardinality(PositionsOf(level, ".")) = 3

\* A segment int() reads as a number that is not negative.
NonNegative(seg) == ParseInt(seg).ok /\ ParseInt(seg).val >= 0

\* vrmf of r holds the four numbers of the level, in order.
VrmfIsParsed(r, level) ==
    /\ "vrmf" \in DOMAIN r
    /\ r["vrmf"] = [ver |-> ParseInt(Segments(level)[1]).val,
                    rel |-> ParseInt(Segments(level)[2]).val,
                    mod |-> ParseInt(Segments(level)[3]).val,
                    fix |-> ParseInt(Segments(level)[4]).val]

C2_OriginalRecord(r, line) ==
    LET level == FieldOf(line, 3)
        shape == FourSegments(level)
                 /\ \A k \in 1..4 : NonNegative(Segments(level)[k])
    IN  IF shape THEN VrmfIsParsed(r, level) ELSE "vrmf" \notin DOMAIN r

C2_AmendedRecord(r, line) ==
    LET level == FieldOf(line, 3)
    IN  /\ r["level"] = level
        /\ IF FourSegments(level)
           THEN /\ \A k \in 1..4 : ParseInt(Segments(level)[k]).ok
                /\ VrmfIsParsed(r, level)
           ELSE "vrmf" \notin DOMAIN r

C2_SignedRecord(r, line) ==
    /\ "vrmf" \in DOMAIN r
    /\ r["vrmf"].rel < 0

C2_ShortRecord(r, line) ==
    /\ "vrmf" \notin DOMAIN r
    /\ Cardinality(PositionsOf(r["level"], ".")) \in {2, 4}

C3_BothSuppliedFails ==
    (params.filesets.given /\ params.bundle.given) =>
        /\ pc \in {"validate", "failed"}
        /\ executed = <<>>
        /\ cmd = <<>>
        /\ results = NoResult

\* C3 witness: a request with both, a path and base_levels_only, failed.
C3_Witness ==
    /\ params.filesets.given /\ params.bundle.given
    /\ Truthy(params.path) /\ params.base_levels_only
    /\ pc = "failed"

L_committed ==
    << "c", "o", "m", "m", "i", "t", "t", "e", "d" >>

ExampleLine == SubSeq(LineExample2, 1, Len(LineExample2) - 1)

C4_OriginalRecord(r, line) ==
    (line = ExampleLine) =>
        /\ r["state"] = L_committed
        /\ "type" \in DOMAIN r /\ r["type"] = L_maintenance
        /\ "emgr_locked" \in DOMAIN r /\ r["emgr_locked"] = TRUE
        /\ "ptf" \notin DOMAIN r

\* C4 as stated: the record of the example line has state committed, type
\* maintenance, emgr_locked true and no ptf.
C4_Original == EveryRecord(C4_OriginalRecord)

C4_AmendedRecord(r, line) ==
    (line = ExampleLine) =>
        /\ r["state"] = <<>>
        /\ "type" \in DOMAIN r /\ r["type"] = <<>>
        /\ r["description"] = <<"M">>
        /\ "emgr_locked" \notin DOMAIN r
        /\ "ptf" \notin DOMAIN r

\* C4 amended: the example line has nine fields, its fourth and fifth
\* empty; its record has the empty state, the empty type (COMMITTED is no
\* type code), description M, no emgr_locked and no ptf.
C4_ExampleRecord == EveryRecord(C4_AmendedRecord)

C4_IsExample(r, line) == line = ExampleLine

\* C4 witness: a result that holds the record of the example line.
C4_Witness == SomeRecord(C4_IsExample)

C5_LockedRecord(r, line) ==
    /\ ("emgr_locked" \in DOMAIN r) <=> (FieldOf(line, 8) = EFIXLOCKED)
    /\ ("emgr_locked" \in DOMAIN r) => r["emgr_locked"] = TRUE

C5_HasLock(r, line) == "emgr_locked" \in DOMAIN r

C5_OtherCase(r, line) ==
    /\ "emgr_locked" \notin DOMAIN r
    /\ FieldOf(line, 8) # <<>>
    /\ Lower(FieldOf(line, 8)) = Lower(EFIXLOCKED)

TypeCodes == {<<"I">>, <<"M">>, <<"E">>, <<"F">>}

C6_TypeRecord(r, line) ==
    LET code == FieldOf(line, 6)
    IN  /\ ("type" \in DOMAIN r) <=> (code # <<>>)
        /\ (code = <<"I">>) => r["type"] = L_install
        /\ (code = <<"M">>) => r["type"] = L_maintenance
        /\ (code = <<"E">>) => r["type"] = L_enhancement
        /\ (code = <<"F">>) => r["type"] = L_fix
        /\ (code # <<>> /\ code \notin TypeCodes) => r["type"] = <<>>

C6_NoType(r, line) == "type" \notin DOMAIN r

C6_Enhancement(r, line) == "type" \in DOMAIN r /\ r["type"] = L_enhancement

C6_EmptyType(r, line) == "type" \in DOMAIN r /\ r["type"] = <<>>

C7_AlwaysKeys(r, line) == {"vrmf", "type", "emgr_locked"} \subseteq DOMAIN r

\* C7: every emitted record holds the keys vrmf, type and emgr_locked.
C7_KeysAlwaysReturned == EveryRecord(C7_AlwaysKeys)

\* A parameter that is supplied and not empty, which is what the code
\* tests before it uses one.
IsSet(p) == p.given /\ Len(p.val) > 0

\* C8: the argument list of a validated request is the lslpp path and the
\* listing flags, then -I iff base_levels_only, then -R and the path iff
\* path is set, then one selector: -b and the bundle if bundle is set,
\* else the patterns in their order if there are any, else the word all;
\* and that list, nothing else, is what is run.
C8_ArgumentList ==
    (pc \in {"run", "loop", "done", "fault"}) =>
        LET b   == IF params.base_levels_only THEN 1 ELSE 0
            r   == IF IsSet(params.path) THEN 2 ELSE 0
            sel == SubSeq(cmd, 3 + b + r, Len(cmd))
        IN  /\ Len(cmd) >= 3 + b + r
            /\ cmd[1] = LslppPath /\ cmd[2] = FlagList
            /\ (b = 1) => cmd[3] = FlagBase
            /\ (r = 2) => cmd[3 + b] = FlagRoot /\ cmd[4 + b] = params.path.val
            /\ IsSet(params.bundle) => sel = <<FlagBundle, params.bundle.val>>
            /\ (~IsSet(params.bundle) /\ IsSet(params.filesets))
                  => sel = params.filesets.val
            /\ (~IsSet(params.bundle) /\ ~IsSet(params.filesets))
                  => sel = <<SelAll>>
            /\ ~(params.filesets.given /\ params.bundle.given)
            /\ \A k \in 1..Len(executed) : executed[k] = cmd

\* C8 witness: lslpp was run with -I, -R, a path and two patterns.
C8_Witness ==
    /\ Ran
    /\ params.base_levels_only
    /\ IsSet(params.path)
    /\ Len(params.filesets.val) = 2
    /\ Len(executed[1]) = 7

\* C9: the exit status decides nothing.  After lslpp ran with a non-zero
\* status the module never stops in fail_json; it stops without a result
\* only where its output has a level int() rejects, and what it emits is
\* the records of its output alone, none when no line has eight fields.
C9_StatusNotFatal ==
    (Ran /\ ret # 0) =>
        /\ pc # "failed"
        /\ (pc = "fault") => HasBadLevelLine(lines)
        /\ (pc = "done") =>
              /\ ~HasBadLevelLine(lines)
              /\ LET from == RecordLines(lines)
                 IN  Emitted = [k \in 1..Len(from) |->
                                   BuildFileset(FirstEight(from[k])).fileset]
              /\ (\A k \in 1..Len(lines) : ~EightOrMore(lines[k]))
                    => Emitted = <<>>

\* C9 witness: records emitted after a non-zero exit status.
C9_Witness == pc = "done" /\ ret # 0 /\ Len(Emitted) >= 1

\* C10: a line of eight or more fields whose four-segment level has a
\* segment int() rejects is never passed by the loop: the module stops
\* there in the fault, and whenever a result is emitted the output had no
\* such line (so the records of the lines before it go unreported too).
C10_BadLevelIsFault ==
    Ran =>
        /\ pc \in {"loop", "fault", "done"}
        /\ (pc = "loop" /\ idx > 1) => ~BadLine(lines[idx - 1])
        /\ (pc = "fault") => results = NoResult /\ BadLine(lines[idx])
        /\ (pc = "done") <=> (results # NoResult)
        /\ (pc = "done") => ~HasBadLevelLine(lines)

\* C10 witness: the fault after an earlier line gave a record.
C10_Witness == pc = "fault" /\ Len(filesets) >= 1 /\ results = NoResult
====
